---- MODULE Spec2Model ----
(***************************************************************************)
(* Black-Scholes dashboard (src/app.py): the pricing and Greeks functions, *)
(* the Greek curve, the PnL heatmap and the Streamlit script that is run   *)
(* again, top to bottom, on every user interaction.                        *)
(*                                                                         *)
(* Numbers.  A Python/numpy float is modelled by a record [k, v]:          *)
(*   k = "fin"   the value v / SCALE (three decimal places), v = 0 being   *)
(*               an exact zero;                                            *)
(*   k = "tiny"  a value that is not resolved at three decimal places but  *)
(*               is known not to be an exact zero when v # 0: v is its     *)
(*               sign (1, -1), or 0 when the sign is not known;            *)
(*   k = "inf"   IEEE infinity of sign v;                                  *)
(*   k = "nan"   IEEE NaN.                                                 *)
(* Arithmetic rounds to the nearest representable value and follows IEEE   *)
(* 754 for zero divisors, infinities and NaN (numpy float64 division by    *)
(* zero warns and returns inf or nan; it does not raise).                  *)
(***************************************************************************)
EXTENDS Integers, Sequences, FiniteSets, TLC

----------------------------------------------------------------------------
(* The number model *)

SCALE == 1000

Fin(v)  == [k |-> "fin",  v |-> v]
Tiny(s) == [k |-> "tiny", v |-> s]
Inf(s)  == [k |-> "inf",  v |-> s]
NaN     == [k |-> "nan",  v |-> 0]

Sgn(x) == IF x > 0 THEN 1 ELSE IF x < 0 THEN -1 ELSE 0
Abs(x) == IF x < 0 THEN -x ELSE x
Min(x, y) == IF x <= y THEN x ELSE y

\* p / q rounded to the nearest integer (halves up), q # 0
RoundDiv(p, q) ==
    IF q > 0 THEN (p + q \div 2) \div q ELSE ((-p) + (-q) \div 2) \div (-q)

\* a value that is certainly an exact zero / certainly not zero
IsZero(a)    == a.k = "fin" /\ a.v = 0
IsNonZero(a) == \/ a.k = "inf"
                \/ a.k = "fin" /\ a.v # 0
                \/ a.k = "tiny" /\ a.v # 0
IsFinite(a)  == a.k \in {"fin", "tiny"}
IsSpecial(a) == a.k \in {"inf", "nan"}

\* comparisons with exact constants (false on NaN, as in IEEE)
Positive(a) == a.k # "nan" /\ a.v > 0
Negative(a) == a.k # "nan" /\ a.v < 0
NonNeg(a)   == IsZero(a) \/ Positive(a)
NonPos(a)   == IsZero(a) \/ Negative(a)
\* a < c and a <= c for a constant c (scaled), c # 0
Below(a, c)   == CASE a.k = "fin"  -> a.v < c
                   [] a.k = "tiny" -> 0 < c
                   [] a.k = "inf"  -> a.v < 0
                   [] a.k = "nan"  -> FALSE
AtMost(a, c)  == CASE a.k = "fin"  -> a.v <= c
                   [] a.k = "tiny" -> 0 < c
                   [] a.k = "inf"  -> a.v < 0
                   [] a.k = "nan"  -> FALSE
Above(a, c)   == CASE a.k = "fin"  -> a.v > c
                   [] a.k = "tiny" -> 0 > c
                   [] a.k = "inf"  -> a.v > 0
                   [] a.k = "nan"  -> FALSE
AtLeast(a, c) == CASE a.k = "fin"  -> a.v >= c
                   [] a.k = "tiny" -> 0 > c
                   [] a.k = "inf"  -> a.v > 0
                   [] a.k = "nan"  -> FALSE

fneg(a) == [k |-> a.k, v |-> -a.v]

fadd(a, b) ==
    CASE a.k = "nan" \/ b.k = "nan" -> NaN
      [] a.k = "inf" /\ b.k = "inf" -> IF a.v = b.v THEN a ELSE NaN
      [] a.k = "inf" /\ b.k # "inf" /\ b.k # "nan" -> a
      [] b.k = "inf" /\ a.k # "inf" /\ a.k # "nan" -> b
      [] a.k = "fin" /\ b.k = "fin" -> Fin(a.v + b.v)
      [] a.k = "fin" /\ b.k = "tiny" -> IF a.v = 0 THEN b ELSE a
      [] a.k = "tiny" /\ b.k = "fin" -> IF b.v = 0 THEN a ELSE b
      [] a.k = "tiny" /\ b.k = "tiny" -> Tiny(IF a.v = b.v THEN a.v ELSE 0)

fsub(a, b) == fadd(a, fneg(b))

fmul(a, b) ==
    CASE a.k = "nan" \/ b.k = "nan" -> NaN
      [] a.k = "inf" /\ b.k # "nan" ->
            IF b.v = 0 THEN NaN ELSE Inf(a.v * Sgn(b.v))
      [] b.k = "inf" /\ a.k \in {"fin", "tiny"} ->
            IF a.v = 0 THEN NaN ELSE Inf(b.v * Sgn(a.v))
      [] a.k = "fin" /\ b.k = "fin" ->
            LET p == a.v * b.v
                q == RoundDiv(p, SCALE)
            IN  IF p = 0 THEN Fin(0) ELSE IF q = 0 THEN Tiny(Sgn(p)) ELSE Fin(q)
      [] a.k = "fin" /\ b.k = "tiny" ->
            IF a.v = 0 THEN Fin(0) ELSE Tiny(Sgn(a.v) * b.v)
      [] a.k = "tiny" /\ b.k = "fin" ->
            IF b.v = 0 THEN Fin(0) ELSE Tiny(Sgn(b.v) * a.v)
      [] a.k = "tiny" /\ b.k = "tiny" -> Tiny(a.v * b.v)

\* The divisors of src/app.py are products of non-negative factors, so a zero
\* divisor is +0: x / 0 has the sign of x, and 0 / 0 is NaN.
fdiv(a, b) ==
    CASE a.k = "nan" \/ b.k = "nan" -> NaN
      [] IsZero(b) /\ a.k # "nan" ->
            IF a.v = 0 THEN NaN ELSE Inf(Sgn(a.v))
      [] b.k = "inf" /\ a.k # "nan" ->
            IF a.k = "inf" THEN NaN ELSE Fin(0)
      [] a.k = "inf" /\ b.k \in {"fin", "tiny"} /\ ~IsZero(b) ->
            IF b.v = 0 THEN NaN ELSE Inf(a.v * Sgn(b.v))
      [] a.k = "fin" /\ b.k = "fin" /\ b.v # 0 ->
            LET q == RoundDiv(a.v * SCALE, b.v)
            IN  IF a.v = 0 THEN Fin(0)
                ELSE IF q = 0 THEN Tiny(Sgn(a.v) * Sgn(b.v)) ELSE Fin(q)
      [] a.k = "tiny" /\ b.k = "fin" /\ b.v # 0 -> Tiny(a.v * Sgn(b.v))
      [] a.k = "fin" /\ a.v = 0 /\ b.k = "tiny" /\ b.v # 0 -> Fin(0)

----------------------------------------------------------------------------
(* numpy / scipy functions used by src/app.py *)

\* floor of the square root of n >= 0, by bisection on [lo, hi]
RECURSIVE SqrtSearch(_, _, _)
SqrtSearch(n, lo, hi) ==
    IF lo >= hi THEN lo
    ELSE LET mid == (lo + hi + 1) \div 2
         IN  IF mid * mid <= n THEN SqrtSearch(n, mid, hi)
             ELSE SqrtSearch(n, lo, mid - 1)

\* sqrt(v / SCALE) * SCALE, to the nearest integer
SqrtFix(v) ==
    LET n == v * SCALE
        s == SqrtSearch(n, 0, 46340)
    IN  IF n - s * s > s THEN s + 1 ELSE s

\* np.sqrt
fsqrt(a) ==
    CASE a.k = "nan" -> NaN
      [] a.k = "inf" -> IF a.v > 0 THEN a ELSE NaN
      [] a.k = "tiny" -> IF a.v > 0 THEN Tiny(1) ELSE IF a.v < 0 THEN NaN ELSE Tiny(0)
      [] a.k = "fin" -> IF a.v < 0 THEN NaN
                        ELSE IF a.v > 0 /\ SqrtFix(a.v) = 0 THEN Tiny(1)
                        ELSE Fin(SqrtFix(a.v))

\* 2 * atanh(z) = 2 * (z + z^3/3 + z^5/5 + z^7/7 + z^9/9), z scaled by SCALE
LnSeries(z) ==
    LET z2 == RoundDiv(z * z, SCALE)
        z3 == RoundDiv(z * z2, SCALE)
        z5 == RoundDiv(z3 * z2, SCALE)
        z7 == RoundDiv(z5 * z2, SCALE)
        z9 == RoundDiv(z7 * z2, SCALE)
    IN  RoundDiv(2 * (315 * z + 105 * z3 + 63 * z5 + 45 * z7 + 35 * z9), 315)

\* ln(v / SCALE) * SCALE for v > 0: ln(x) = ln(x / 2) + ln 2 above 1.5,
\* ln(x) = ln(2 x) - ln 2 below 0.75, the atanh series in between
RECURSIVE LnFix(_)
LnFix(v) ==
    IF 2 * v >= 3 * SCALE THEN LnFix(RoundDiv(v, 2)) + 693
    ELSE IF 4 * v < 3 * SCALE THEN LnFix(2 * v) - 693
    ELSE LnSeries(RoundDiv((v - SCALE) * SCALE, v + SCALE))

\* np.log
flog(a) ==
    CASE a.k = "nan" -> NaN
      [] a.k = "inf" -> IF a.v > 0 THEN a ELSE NaN
      [] a.k = "fin" /\ a.v = 0 -> Inf(-1)
      [] a.k = "fin" /\ a.v < 0 -> NaN
      [] a.k = "fin" /\ a.v > 0 -> Fin(LnFix(a.v))

\* sum of the Taylor terms of exp from the k-th on, term being x^(k-1)/(k-1)!
RECURSIVE ExpTerms(_, _, _)
ExpTerms(x, term, k) ==
    IF k > 10 \/ term = 0 THEN term
    ELSE term + ExpTerms(x, RoundDiv(term * x, SCALE * k), k + 1)

\* exp(v / SCALE) * SCALE: Taylor series for |x| <= 1, exp(x) = exp(x/2)^2 beyond
RECURSIVE ExpFix(_)
ExpFix(v) ==
    IF Abs(v) <= SCALE THEN ExpTerms(v, SCALE, 1)
    ELSE LET h == ExpFix(RoundDiv(v, 2)) IN RoundDiv(h * h, SCALE)

\* np.exp
fexp(a) ==
    CASE a.k = "nan" -> NaN
      [] a.k = "inf" -> IF a.v > 0 THEN a ELSE Fin(0)
      [] a.k = "tiny" -> Fin(SCALE)
      [] a.k = "fin" -> IF ExpFix(a.v) = 0 THEN Tiny(1) ELSE Fin(ExpFix(a.v))

\* the standard normal cdf and pdf at 0.0, 0.1, ..., 4.0, times SCALE
CdfTable ==
    << 500, 540, 579, 618, 655, 691, 726, 758, 788, 816,
       841, 864, 885, 903, 919, 933, 945, 955, 964, 971,
       977, 982, 986, 989, 992, 994, 995, 997, 997, 998,
       999, 999, 999, 1000, 1000, 1000, 1000, 1000, 1000, 1000, 1000 >>
PdfTable ==
    << 399, 397, 391, 381, 368, 352, 333, 312, 290, 266,
       242, 218, 194, 171, 150, 130, 111, 94, 79, 66,
       54, 44, 35, 28, 22, 18, 14, 10, 8, 6,
       4, 3, 2, 2, 1, 1, 1, 0, 0, 0, 0 >>

\* linear interpolation in a table of steps 0.1, for v >= 0
TableInterp(tab, v) ==
    LET idx  == v \div 100
        frac == v % 100
    IN  IF idx >= 40 THEN tab[41]
        ELSE tab[idx + 1] + RoundDiv((tab[idx + 2] - tab[idx + 1]) * frac, 100)

\* si.norm.cdf on float64.  scipy's ndtr returns exactly 1.0 from x = 8.293
\* on (1 - 0.5 erfc(x / sqrt 2) rounds to 1.0), exactly 0.0 from x = -38.5
\* down (underflow), and for -38.5 < x <= -8.293 a positive value below
\* 2^-54, which 1 absorbs in an addition.  In between the result is strictly
\* inside (0, 1).
cdf(a) ==
    CASE a.k = "nan" -> NaN
      [] a.k = "inf" -> IF a.v > 0 THEN Fin(SCALE) ELSE Fin(0)
      [] a.k = "tiny" -> Fin(CdfTable[1])
      [] a.k = "fin" /\ a.v >= 8293 -> Fin(SCALE)
      [] a.k = "fin" /\ a.v <= -38500 -> Fin(0)
      [] a.k = "fin" /\ a.v > -38500 /\ a.v <= -8293 -> Tiny(1)
      [] a.k = "fin" /\ a.v >= 0 /\ a.v < 8293 ->
            Fin(Min(SCALE - 1, TableInterp(CdfTable, a.v)))
      [] a.k = "fin" /\ a.v < 0 /\ a.v > -8293 ->
            Fin(SCALE - Min(SCALE - 1, TableInterp(CdfTable, -a.v)))

\* si.norm.pdf on float64: exp(-x^2 / 2) / sqrt(2 pi) underflows to exactly
\* 0.0 from |x| = 38.6 on, and is positive below.
pdf(a) ==
    CASE a.k = "nan" -> NaN
      [] a.k = "inf" -> Fin(0)
      [] a.k = "tiny" -> Fin(PdfTable[1])
      [] a.k = "fin" /\ Abs(a.v) >= 38600 -> Fin(0)
      [] a.k = "fin" /\ Abs(a.v) < 38600 ->
            IF TableInterp(PdfTable, Abs(a.v)) = 0 THEN Tiny(1)
            ELSE Fin(TableInterp(PdfTable, Abs(a.v)))

----------------------------------------------------------------------------
(* Black-Scholes pricing functions and Greeks *)

\* np.log(S / K) + (r + 0.5 * sigma**2) * T
d1_numerator(S0, K0, T0, r0, sigma0) ==
    fadd(flog(fdiv(S0, K0)),
         fmul(fadd(r0, fmul(Fin(SCALE \div 2), fmul(sigma0, sigma0))), T0))

\* sigma * np.sqrt(T)
d1_denominator(T0, sigma0) == fmul(sigma0, fsqrt(T0))

\* fault variant of d1_of: a guard that substitutes 0 when sigma * sqrt(T) is 0
d1_of_guarded(S0, K0, T0, r0, sigma0) ==
    IF IsZero(d1_denominator(T0, sigma0)) THEN Fin(0)
    ELSE fdiv(d1_numerator(S0, K0, T0, r0, sigma0), d1_denominator(T0, sigma0))

\* d1 = (np.log(S / K) + (r + 0.5 * sigma**2) * T) / (sigma * np.sqrt(T))
d1_of(S0, K0, T0, r0, sigma0) ==
    fdiv(d1_numerator(S0, K0, T0, r0, sigma0), d1_denominator(T0, sigma0))

\* d2 = d1 - sigma * np.sqrt(T)
d2_of(S0, K0, T0, r0, sigma0) ==
    fsub(d1_of(S0, K0, T0, r0, sigma0), fmul(sigma0, fsqrt(T0)))

\* np.exp(-r*T)
discount(T0, r0) == fexp(fmul(fneg(r0), T0))

black_scholes_call(S0, K0, T0, r0, sigma0) ==
    LET d1 == d1_of(S0, K0, T0, r0, sigma0)
        d2 == d2_of(S0, K0, T0, r0, sigma0)
    IN  fsub(fmul(S0, cdf(d1)), fmul(fmul(K0, discount(T0, r0)), cdf(d2)))

\* fault variant of black_scholes_put: N(d2) and N(d1) in place of N(-d2) and N(-d1)
black_scholes_put_unnegated(S0, K0, T0, r0, sigma0) ==
    LET d1 == d1_of(S0, K0, T0, r0, sigma0)
        d2 == d2_of(S0, K0, T0, r0, sigma0)
    IN  fsub(fmul(fmul(K0, discount(T0, r0)), cdf(d2)), fmul(S0, cdf(d1)))

black_scholes_put(S0, K0, T0, r0, sigma0) ==
    LET d1 == d1_of(S0, K0, T0, r0, sigma0)
        d2 == d2_of(S0, K0, T0, r0, sigma0)
    IN  fsub(fmul(fmul(K0, discount(T0, r0)), cdf(fneg(d2))),
             fmul(S0, cdf(fneg(d1))))

\* fault variant of is_call: the branches of option_greeks exchanged
is_call_inverted(option) == option # "call"

\* line 28: if option == "call" (a case-sensitive comparison of strings)
is_call(option) == option = "call"

option_greeks(S0, K0, T0, r0, sigma0, option) ==
    LET d1  == d1_of(S0, K0, T0, r0, sigma0)
        d2  == d2_of(S0, K0, T0, r0, sigma0)
        pd  == pdf(d1)
        \* -(S * pdf * sigma) / (2 * np.sqrt(T))
        decay == fdiv(fneg(fmul(fmul(S0, pd), sigma0)),
                      fmul(Fin(2 * SCALE), fsqrt(T0)))
        \* r * K * np.exp(-r*T)
        rKe == fmul(fmul(r0, K0), discount(T0, r0))
        \* K * T * np.exp(-r*T)
        KTe == fmul(fmul(K0, T0), discount(T0, r0))
        Gamma == fdiv(pd, fmul(fmul(S0, sigma0), fsqrt(T0)))
        Vega  == fmul(fmul(S0, pd), fsqrt(T0))
    IN  IF is_call(option)
        THEN [Delta |-> cdf(d1),
              Gamma |-> Gamma,
              Vega  |-> Vega,
              Theta |-> fsub(decay, fmul(rKe, cdf(d2))),
              Rho   |-> fmul(KTe, cdf(d2))]
        ELSE [Delta |-> fsub(cdf(d1), Fin(SCALE)),
              Gamma |-> Gamma,
              Vega  |-> Vega,
              Theta |-> fadd(decay, fmul(rKe, cdf(fneg(d2)))),
              Rho   |-> fmul(fmul(fmul(fneg(K0), T0), discount(T0, r0)),
                             cdf(fneg(d2)))]

----------------------------------------------------------------------------
(* The Streamlit script: widgets, script variables, process-wide state *)

VARIABLES
    S, K, T, r, sigma,      \* sidebar sliders (lines 119-123)
    purchase_price,         \* number input (line 124)
    option_type,            \* radio selector (line 125); the argument under test in SpecFn
    greek_choice,           \* dropdown (line 150)
    pc,                     \* position of the running script
    call_price, put_price,  \* lines 138-139
    Greeks,                 \* Delta, Gamma, Vega, Theta, Rho of line 145
    values, n,              \* plot_greek_curve: the list and the iterations done
    pnl, i, j,              \* plot_pnl_heatmap: the matrix and the loop indices
    rcStyle, figures,       \* matplotlib: the global style, the open pyplot figures
    runs,                   \* script runs started so far
    evals,                  \* history: the functions evaluated by this run, in order
    lastEval,               \* history: the arguments of the latest evaluation
    writes                  \* history: how often each pnl cell was stored to

vars == << S, K, T, r, sigma, purchase_price, option_type, greek_choice, pc,
           call_price, put_price, Greeks, values, n, pnl, i, j, rcStyle,
           figures, runs, evals, lastEval, writes >>

widgets == << S, K, T, r, sigma, purchase_price, option_type, greek_choice >>
process == << rcStyle, figures >>
curveVars == << values, n >>
heatVars == << pnl, i, j, writes >>

\* script reruns explored
MaxRuns == 2

\* fault variant of SliderT: a slider whose minimum is 0.0
SliderT_from_zero == {Fin(0), Fin(1000), Fin(5000)}

\* st.sidebar.slider(label, min, max, default): the two ends and the default
SliderS     == {Fin(50 * SCALE), Fin(100 * SCALE), Fin(200 * SCALE)}
SliderK     == {Fin(50 * SCALE), Fin(100 * SCALE), Fin(200 * SCALE)}
SliderT     == {Fin(100), Fin(1000), Fin(5000)}
SliderR     == {Fin(0), Fin(50), Fin(100)}
SliderSigma == {Fin(100), Fin(200), Fin(1000)}
\* st.sidebar.number_input(value=10.0): any float
PurchaseInput == {Fin(10 * SCALE), Fin(0), Fin(25500)}
OptionRadio   == {"Call", "Put"}
GreekSelect   == {"Delta", "Gamma", "Vega", "Theta", "Rho"}

\* a script variable that is not bound yet
Unset == [k |-> "unset", v |-> 0]
NoGreeks == [Delta |-> Unset, Gamma |-> Unset, Vega |-> Unset,
             Theta |-> Unset, Rho |-> Unset]
NoEval == [fn |-> "none", S |-> Unset, K |-> Unset, T |-> Unset,
           r |-> Unset, sigma |-> Unset]
Eval(fn, S0, K0, T0, r0, sigma0) ==
    [fn |-> fn, S |-> S0, K |-> K0, T |-> T0, r |-> r0, sigma |-> sigma0]

\* the lengths of the three np.linspace grids (lines 78, 46, 47)
CurvePoints == 100
SpotCount == 8
VolCount == 8

\* np.linspace(50, 150, 100)[m], m = 0..99
S_vals_curve(m) == Fin(50 * SCALE + RoundDiv(m * 100 * SCALE, CurvePoints - 1))
\* np.linspace(50, 150, 8)[a], a = 0..7
S_vals(a) == Fin(50 * SCALE + RoundDiv(a * 100 * SCALE, SpotCount - 1))
\* np.linspace(0.1, 0.6, 8)[b], b = 0..7
sigma_vals(b) == Fin(100 + RoundDiv(b * 500, VolCount - 1))

\* np.zeros((len(S_vals), len(sigma_vals)))
Zeros == [a \in 0 .. SpotCount - 1 |-> [b \in 0 .. VolCount - 1 |-> Fin(0)]]
NoWrites == [a \in 0 .. SpotCount - 1 |-> [b \in 0 .. VolCount - 1 |-> 0]]

\* the script's variables before the script has bound them
FreshScript ==
    /\ call_price = Unset /\ put_price = Unset /\ Greeks = NoGreeks
    /\ values = << >> /\ n = 0
    /\ pnl = << >> /\ i = 0 /\ j = 0 /\ writes = NoWrites
    /\ evals = << >> /\ lastEval = NoEval

\* the first run: every widget at its default
Init ==
    /\ S = Fin(100 * SCALE) /\ K = Fin(100 * SCALE) /\ T = Fin(1000)
    /\ r = Fin(50) /\ sigma = Fin(200) /\ purchase_price = Fin(10 * SCALE)
    /\ option_type = "Call" /\ greek_choice = "Delta"
    /\ pc = "call_price"
    /\ FreshScript
    /\ rcStyle = "default" /\ figures = 0
    /\ runs = 1

\* line 138
PriceCall ==
    /\ pc = "call_price"
    /\ call_price' = black_scholes_call(S, K, T, r, sigma)
    /\ evals' = Append(evals, "black_scholes_call")
    /\ lastEval' = Eval("black_scholes_call", S, K, T, r, sigma)
    /\ pc' = "put_price"
    /\ UNCHANGED << widgets, process, curveVars, heatVars, put_price, Greeks, runs >>

\* fault variant of PricePut: the put price is computed only when Put is selected
PricePut_selected_only ==
    /\ pc = "put_price"
    /\ IF option_type = "Put"
       THEN /\ put_price' = black_scholes_put(S, K, T, r, sigma)
            /\ evals' = Append(evals, "black_scholes_put")
            /\ lastEval' = Eval("black_scholes_put", S, K, T, r, sigma)
       ELSE UNCHANGED << put_price, evals, lastEval >>
    /\ pc' = "greeks"
    /\ UNCHANGED << widgets, process, curveVars, heatVars, call_price, Greeks, runs >>

\* lines 139-142
PricePut ==
    /\ pc = "put_price"
    /\ put_price' = black_scholes_put(S, K, T, r, sigma)
    /\ evals' = Append(evals, "black_scholes_put")
    /\ lastEval' = Eval("black_scholes_put", S, K, T, r, sigma)
    /\ pc' = "greeks"
    /\ UNCHANGED << widgets, process, curveVars, heatVars, call_price, Greeks, runs >>

\* lines 145-150
GreeksPoint ==
    /\ pc = "greeks"
    /\ Greeks' = option_greeks(S, K, T, r, sigma, option_type)
    /\ evals' = Append(evals, "option_greeks")
    /\ lastEval' = Eval("option_greeks", S, K, T, r, sigma)
    /\ pc' = "curve"
    /\ UNCHANGED << widgets, process, curveVars, heatVars, call_price, put_price, runs >>

\* fault variant of CurveAppend: the last branch tests a name the dropdown never gives
CurveAppend_misspelt(vals, greek, G) ==
    IF greek = "Delta" THEN Append(vals, G.Delta)
    ELSE IF greek = "Gamma" THEN Append(vals, G.Gamma)
    ELSE IF greek = "Vega" THEN Append(vals, G.Vega)
    ELSE IF greek = "Theta" THEN Append(vals, G.Theta)
    ELSE IF greek = "rho" THEN Append(vals, G.Rho)
    ELSE vals

\* lines 83-92: the if/elif chain, which has no else
CurveAppend(vals, greek, G) ==
    IF greek = "Delta" THEN Append(vals, G.Delta)
    ELSE IF greek = "Gamma" THEN Append(vals, G.Gamma)
    ELSE IF greek = "Vega" THEN Append(vals, G.Vega)
    ELSE IF greek = "Theta" THEN Append(vals, G.Theta)
    ELSE IF greek = "Rho" THEN Append(vals, G.Rho)
    ELSE vals

\* lines 81-92: one iteration of plot_greek_curve's loop over S_vals
CurveStep ==
    /\ pc = "curve"
    /\ n < CurvePoints
    /\ values' = CurveAppend(values, greek_choice,
                     option_greeks(S_vals_curve(n), K, T, r, sigma, option_type))
    /\ n' = n + 1
    /\ evals' = Append(evals, "option_greeks")
    /\ lastEval' = Eval("option_greeks", S_vals_curve(n), K, T, r, sigma)
    /\ UNCHANGED << widgets, process, heatVars, pc, call_price, put_price, Greeks, runs >>

\* lines 94-103: the loop is over; style, figure, plot
CurvePlot ==
    /\ pc = "curve"
    /\ n = CurvePoints
    /\ rcStyle' = "dark_background"
    /\ figures' = figures + 1
    /\ pc' = "heatmap_init"
    /\ UNCHANGED << widgets, curveVars, heatVars, call_price, put_price, Greeks,
                    runs, evals, lastEval >>

\* lines 46-48
HeatmapInit ==
    /\ pc = "heatmap_init"
    /\ pnl' = Zeros
    /\ i' = 0 /\ j' = 0
    /\ pc' = "heatmap"
    /\ UNCHANGED << widgets, process, curveVars, writes, call_price, put_price,
                    Greeks, runs, evals, lastEval >>

\* lines 52-55: the pricing function the heatmap uses
HeatmapPriceFn(option) ==
    IF is_call(option) THEN "black_scholes_call" ELSE "black_scholes_put"

HeatmapPrice(S0, K0, T0, r0, sigma0, option) ==
    IF HeatmapPriceFn(option) = "black_scholes_call"
    THEN black_scholes_call(S0, K0, T0, r0, sigma0)
    ELSE black_scholes_put(S0, K0, T0, r0, sigma0)

\* fault variant of HeatmapCell: the store goes to pnl[j, i]
HeatmapCell_transposed ==
    /\ pc = "heatmap"
    /\ i < SpotCount
    /\ pnl' = [pnl EXCEPT ![j][i] =
                 fsub(HeatmapPrice(S_vals(i), K, T, r, sigma_vals(j), option_type),
                      purchase_price)]
    /\ writes' = [writes EXCEPT ![j][i] = @ + 1]
    /\ evals' = Append(evals, HeatmapPriceFn(option_type))
    /\ lastEval' = Eval(HeatmapPriceFn(option_type), S_vals(i), K, T, r, sigma_vals(j))
    /\ IF j + 1 < VolCount THEN i' = i /\ j' = j + 1 ELSE i' = i + 1 /\ j' = 0
    /\ UNCHANGED << widgets, process, curveVars, pc, call_price, put_price, Greeks, runs >>

\* lines 50-56: one iteration of the inner loop
HeatmapCell ==
    /\ pc = "heatmap"
    /\ i < SpotCount
    /\ pnl' = [pnl EXCEPT ![i][j] =
                 fsub(HeatmapPrice(S_vals(i), K, T, r, sigma_vals(j), option_type),
                      purchase_price)]
    /\ writes' = [writes EXCEPT ![i][j] = @ + 1]
    /\ evals' = Append(evals, HeatmapPriceFn(option_type))
    /\ lastEval' = Eval(HeatmapPriceFn(option_type), S_vals(i), K, T, r, sigma_vals(j))
    /\ IF j + 1 < VolCount THEN i' = i /\ j' = j + 1 ELSE i' = i + 1 /\ j' = 0
    /\ UNCHANGED << widgets, process, curveVars, pc, call_price, put_price, Greeks, runs >>

\* lines 58-72: the loops are over; figure, heatmap
HeatmapPlot ==
    /\ pc = "heatmap"
    /\ i = SpotCount
    /\ figures' = figures + 1
    /\ pc' = "done"
    /\ UNCHANGED << widgets, rcStyle, curveVars, heatVars, call_price, put_price,
                    Greeks, runs, evals, lastEval >>

\* the user moves one widget; Streamlit runs the script again from the top,
\* in the same process, with fresh script variables
Rerun ==
    /\ pc' = "call_price"
    /\ runs' = runs + 1
    /\ call_price' = Unset /\ put_price' = Unset /\ Greeks' = NoGreeks
    /\ values' = << >> /\ n' = 0
    /\ pnl' = << >> /\ i' = 0 /\ j' = 0 /\ writes' = NoWrites
    /\ evals' = << >> /\ lastEval' = NoEval
    /\ UNCHANGED process

Interact ==
    /\ pc = "done"
    /\ runs < MaxRuns
    /\ Rerun
    /\ \/ \E x \in SliderS \ {S} :
            S' = x /\ UNCHANGED << K, T, r, sigma, purchase_price, option_type, greek_choice >>
       \/ \E x \in SliderK \ {K} :
            K' = x /\ UNCHANGED << S, T, r, sigma, purchase_price, option_type, greek_choice >>
       \/ \E x \in SliderT \ {T} :
            T' = x /\ UNCHANGED << S, K, r, sigma, purchase_price, option_type, greek_choice >>
       \/ \E x \in SliderR \ {r} :
            r' = x /\ UNCHANGED << S, K, T, sigma, purchase_price, option_type, greek_choice >>
       \/ \E x \in SliderSigma \ {sigma} :
            sigma' = x /\ UNCHANGED << S, K, T, r, purchase_price, option_type, greek_choice >>
       \/ \E x \in PurchaseInput \ {purchase_price} :
            purchase_price' = x /\ UNCHANGED << S, K, T, r, sigma, option_type, greek_choice >>
       \/ \E x \in OptionRadio \ {option_type} :
            option_type' = x /\ UNCHANGED << S, K, T, r, sigma, purchase_price, greek_choice >>
       \/ \E x \in GreekSelect \ {greek_choice} :
            greek_choice' = x /\ UNCHANGED << S, K, T, r, sigma, purchase_price, option_type >>

Next ==
    \/ PriceCall
    \/ PricePut
    \/ GreeksPoint
    \/ CurveStep
    \/ CurvePlot
    \/ HeatmapInit
    \/ HeatmapCell
    \/ HeatmapPlot
    \/ Interact

Spec == Init /\ [][Next]_vars

----------------------------------------------------------------------------
(* The three functions applied to arguments of their whole domain, the      *)
(* degenerate T = 0 and sigma = 0 included                                  *)

FnS      == {Fin(50 * SCALE), Fin(100 * SCALE), Fin(200 * SCALE)}
FnK      == {Fin(50 * SCALE), Fin(100 * SCALE), Fin(200 * SCALE)}
FnT      == {Fin(0), Fin(100), Fin(1000), Fin(5000)}
FnR      == {Fin(-50), Fin(0), Fin(50), Fin(100)}
FnSigma  == {Fin(0), Fin(100), Fin(200), Fin(1000)}
FnOption == {"call", "put"}

FnInit ==
    /\ S \in FnS /\ K \in FnK /\ T \in FnT /\ r \in FnR /\ sigma \in FnSigma
    /\ option_type \in FnOption
    /\ purchase_price = Fin(0) /\ greek_choice = "Delta"
    /\ pc = "fn_call"
    /\ FreshScript
    /\ rcStyle = "default" /\ figures = 0
    /\ runs = 0

\* black_scholes_call(S, K, T, r, sigma)
ApplyCall ==
    /\ pc = "fn_call"
    /\ call_price' = black_scholes_call(S, K, T, r, sigma)
    /\ lastEval' = Eval("black_scholes_call", S, K, T, r, sigma)
    /\ pc' = "fn_put"
    /\ UNCHANGED << widgets, process, curveVars, heatVars, put_price, Greeks, runs, evals >>

\* black_scholes_put(S, K, T, r, sigma)
ApplyPut ==
    /\ pc = "fn_put"
    /\ put_price' = black_scholes_put(S, K, T, r, sigma)
    /\ lastEval' = Eval("black_scholes_put", S, K, T, r, sigma)
    /\ pc' = "fn_greeks"
    /\ UNCHANGED << widgets, process, curveVars, heatVars, call_price, Greeks, runs, evals >>

\* option_greeks(S, K, T, r, sigma, option)
ApplyGreeks ==
    /\ pc = "fn_greeks"
    /\ Greeks' = option_greeks(S, K, T, r, sigma, option_type)
    /\ lastEval' = Eval("option_greeks", S, K, T, r, sigma)
    /\ pc' = "fn_done"
    /\ UNCHANGED << widgets, process, curveVars, heatVars, call_price, put_price, runs, evals >>

FnNext ==
    \/ ApplyCall
    \/ ApplyPut
    \/ ApplyGreeks

SpecFn == FnInit /\ [][FnNext]_vars

----------------------------------------------------------------------------
(* Properties *)

\* S > 0, K > 0, T > 0, sigma > 0
Valid == Positive(S) /\ Positive(K) /\ Positive(T) /\ Positive(sigma)
\* T = 0 or sigma = 0
Degenerate == IsZero(T) \/ IsZero(sigma)
\* option_greeks has been evaluated at the slider values by this run
GreeksShown == pc \in {"curve", "heatmap_init", "heatmap", "done"}
\* the branch of option_greeks that belongs to the radio selector
SelectedBranch == IF option_type = "Call" THEN "call" ELSE "put"
Cells == (0 .. 7) \X (0 .. 7)

\* C1: the Greeks displayed (line 145) and the Greeks plotted (line 82) are
\* those of the option type of the radio selector: the call branch of
\* option_greeks when the selector is Call, the put branch when it is Put.
C1_GreeksOfSelectedType ==
    /\ GreeksShown => Greeks = option_greeks(S, K, T, r, sigma, SelectedBranch)
    /\ \A m \in 1 .. Len(values) :
          values[m] = option_greeks(S_vals_curve(m - 1), K, T, r, sigma,
                                    SelectedBranch)[greek_choice]

\* C2: every heatmap cell is computed with the pricing function of the
\* selected option type: black_scholes_call for Call, black_scholes_put for Put.
C2_HeatmapOfSelectedType ==
    pc \in {"heatmap", "done"} =>
        \A c \in Cells :
            writes[c[1]][c[2]] > 0 =>
                pnl[c[1]][c[2]] =
                    fsub(IF option_type = "Call"
                         THEN black_scholes_call(S_vals(c[1]), K, T, r, sigma_vals(c[2]))
                         ELSE black_scholes_put(S_vals(c[1]), K, T, r, sigma_vals(c[2])),
                         purchase_price)

\* C3: put-call parity: for valid inputs, call - put equals S - K e^(-rT) up
\* to the rounding of the four products (two units of the last place).
C3_PutCallParity ==
    (pc = "fn_done" /\ Valid) =>
        LET gap == fsub(fsub(call_price, put_price),
                        fsub(S, fmul(K, discount(T, r))))
        IN  AtMost(gap, 2) /\ AtLeast(gap, -2)

C3_Witness ==
    /\ pc = "fn_done" /\ Valid
    /\ S # K /\ r = Fin(50)
    /\ call_price.k = "fin" /\ call_price.v > SCALE
    /\ put_price.k = "fin" /\ put_price.v > SCALE

C5_DegenerateResults ==
    (pc = "fn_done" /\ Degenerate) =>
        LET d1 == d1_of(S, K, T, r, sigma)
            Ke == fmul(K, discount(T, r))
        IN  /\ IsSpecial(d1)
            /\ d1.k = "nan" <=> IsZero(d1_numerator(S, K, T, r, sigma))
            /\ d1.k = "nan" =>
                  /\ call_price = NaN /\ put_price = NaN
                  /\ \A g \in GreekSelect : Greeks[g] = NaN
            /\ d1 = Inf(1) =>
                  /\ call_price = fsub(S, Ke) /\ IsFinite(call_price)
                  /\ IsZero(put_price)
                  /\ Greeks.Gamma = NaN
            /\ d1 = Inf(-1) =>
                  /\ IsZero(call_price)
                  /\ put_price = fsub(Ke, S) /\ IsFinite(put_price)
                  /\ Greeks.Gamma = NaN

\* T = 0 with S > K: d1 = +Inf and the call price is the finite S - K
C5_Witness ==
    /\ pc = "fn_done" /\ IsZero(T) /\ Positive(sigma)
    /\ d1_of(S, K, T, r, sigma) = Inf(1)
    /\ call_price = fsub(S, K) /\ Positive(call_price)

\* C5 as stated: with T = 0 or sigma = 0 what each function returns is NaN or Inf.
C5_ReturnsNaNOrInf ==
    (pc = "fn_done" /\ Degenerate) =>
        /\ IsSpecial(call_price)
        /\ IsSpecial(put_price)
        /\ \E g \in GreekSelect : IsSpecial(Greeks[g])

\* C6: when the loops of plot_pnl_heatmap are over, the matrix is 8 x 8 and
\* every cell (a, b) was stored to exactly once, with the price at
\* (S_vals[a], K, T, r, sigma_vals[b]) minus purchase_price; the spot prices
\* run from 50 to 150 and the volatilities from 0.1 to 0.6.
C6_HeatmapFilled ==
    ((pc = "heatmap" /\ i = 8) \/ pc = "done") =>
        /\ DOMAIN pnl = 0 .. 7
        /\ \A a \in DOMAIN pnl : DOMAIN pnl[a] = 0 .. 7
        /\ \A c \in Cells :
              /\ writes[c[1]][c[2]] = 1
              /\ pnl[c[1]][c[2]] =
                    fsub(HeatmapPrice(S_vals(c[1]), K, T, r, sigma_vals(c[2]),
                                      option_type),
                         purchase_price)
        /\ S_vals(0) = Fin(50 * SCALE) /\ S_vals(7) = Fin(150 * SCALE)
        /\ sigma_vals(0) = Fin(100) /\ sigma_vals(7) = Fin(600)

C6_Witness ==
    /\ pc = "done" /\ runs = 2
    /\ pnl[0][7] # pnl[7][0]
    /\ pnl[0][0] # Fin(0)

\* C7: when the loop of plot_greek_curve is over, values has 100 entries, as
\* many as S_vals, and the m-th is the selected Greek of option_greeks at the
\* m-th of 100 spot prices from 50 to 150; while the loop runs, values holds
\* one entry per iteration done.
C7_CurveValues ==
    /\ pc = "curve" => Len(values) = n
    /\ ((pc = "curve" /\ n = CurvePoints) \/ pc = "heatmap_init") =>
          /\ Len(values) = 100
          /\ \A m \in 1 .. 100 :
                values[m] = option_greeks(S_vals_curve(m - 1), K, T, r, sigma,
                                          option_type)[greek_choice]
          /\ S_vals_curve(0) = Fin(50 * SCALE)
          /\ S_vals_curve(99) = Fin(150 * SCALE)

C7_Witness ==
    /\ pc = "heatmap_init" /\ greek_choice = "Rho"
    /\ Len(values) = 100
    /\ values[1] # values[100]

\* C8: a run leaves the process as it found it: when the script is over the
\* matplotlib style is the initial one and no pyplot figure is open.
C8_NoProcessStateLeft ==
    pc = "done" => rcStyle = "default" /\ figures = 0

\* C9: every run starts with no script variable bound and evaluates, in this
\* order, black_scholes_call and black_scholes_put at the slider values,
\* option_greeks once, option_greeks 100 times for the curve and a pricing
\* function 64 times for the heatmap; the results it ends with are those of
\* its own widget values, for either option type.
C9_FullRecompute ==
    /\ pc = "call_price" => FreshScript
    /\ pc = "done" =>
          /\ Len(evals) = 3 + 100 + 64
          /\ evals[1] = "black_scholes_call"
          /\ evals[2] = "black_scholes_put"
          /\ \A k \in 3 .. 103 : evals[k] = "option_greeks"
          /\ \A k \in 104 .. 167 :
                evals[k] \in {"black_scholes_call", "black_scholes_put"}
          /\ call_price = black_scholes_call(S, K, T, r, sigma)
          /\ put_price = black_scholes_put(S, K, T, r, sigma)
          /\ Greeks = option_greeks(S, K, T, r, sigma, option_type)

\* the end of a second run, made after the stock price slider was moved
C9_Witness ==
    /\ pc = "done" /\ runs = 2
    /\ S = Fin(200 * SCALE)
    /\ Len(evals) = 167
    /\ call_price # Unset /\ put_price # Unset

\* C10: every evaluation made by the dashboard has S > 0, K > 0, T > 0 and
\* sigma > 0, a non-zero divisor sigma * sqrt(T) and a positive S / K; the
\* sliders keep S and K in [50, 200], T in [0.1, 5.0] and sigma in [0.1, 1.0],
\* the curve uses S in [50, 150], the heatmap S in [50, 150] and sigma in
\* [0.1, 0.6].
C10_ArgumentsPositive ==
    /\ AtLeast(S, 50 * SCALE) /\ AtMost(S, 200 * SCALE)
    /\ AtLeast(K, 50 * SCALE) /\ AtMost(K, 200 * SCALE)
    /\ AtLeast(T, 100) /\ AtMost(T, 5000)
    /\ AtLeast(sigma, 100) /\ AtMost(sigma, 1000)
    /\ lastEval.fn # "none" =>
          /\ Positive(lastEval.S) /\ Positive(lastEval.K)
          /\ Positive(lastEval.T) /\ Positive(lastEval.sigma)
          /\ IsNonZero(d1_denominator(lastEval.T, lastEval.sigma))
          /\ Positive(fdiv(lastEval.S, lastEval.K))
    /\ (pc = "curve" /\ n > 0) =>
          AtLeast(lastEval.S, 50 * SCALE) /\ AtMost(lastEval.S, 150 * SCALE)
    /\ (pc = "heatmap" /\ i + j > 0) =>
          /\ AtLeast(lastEval.S, 50 * SCALE) /\ AtMost(lastEval.S, 150 * SCALE)
          /\ AtLeast(lastEval.sigma, 100) /\ AtMost(lastEval.sigma, 600)

\* a heatmap evaluation at the smallest T, spot price and volatility
C10_Witness ==
    /\ pc = "heatmap" /\ i = 0 /\ j = 1
    /\ T = Fin(100)
    /\ lastEval.S = Fin(50 * SCALE) /\ lastEval.sigma = Fin(100)
    /\ lastEval.T = Fin(100)

====
